---------------------------- MODULE Spec2Model ----------------------------
(***************************************************************************)
(* Model of streamlit_app.py (NanoSmart Packaging App): the reference      *)
(* catalog (load_data), the shelf-life estimator (calculate_shelf_life),   *)
(* the recommendation generator (generate_recommendation) and the          *)
(* session-state handling of the simulation page (show_simulation,         *)
(* show_results, the __main__ initialisation).                             *)
(*                                                                         *)
(* Python floats are IEEE-754 binary64.  They are modelled exactly: a      *)
(* double is a sign, a 53-bit significand and a binary exponent, and every *)
(* arithmetic step of the code is one correctly rounded operation          *)
(* (round-to-nearest, ties-to-even).  Significands do not fit TLC's        *)
(* integers, so they are natural numbers written in limbs of LimbBits      *)
(* bits, least significant limb first.  All values of the program lie far  *)
(* inside the normal range, so subnormals, infinities and NaN do not       *)
(* occur and are not represented.                                          *)
(***************************************************************************)
EXTENDS Integers, Sequences, FiniteSets, TLC

(***************************************************************************)
(* Natural numbers in limbs (little-endian, no leading zero limb).         *)
(***************************************************************************)
LimbBits == 14
Base == 2 ^ LimbBits

RECURSIVE Trim(_)
Trim(a) ==
  IF a = << >> THEN << >>
  ELSE IF a[Len(a)] = 0 THEN Trim(SubSeq(a, 1, Len(a) - 1)) ELSE a

RECURSIVE BigFromInt(_)
BigFromInt(n) ==
  IF n = 0 THEN << >> ELSE << n % Base >> \o BigFromInt(n \div Base)

RECURSIVE BigToInt(_)
BigToInt(a) ==
  IF a = << >> THEN 0 ELSE a[1] + Base * BigToInt(Tail(a))

Limb(a, i) == IF 1 <= i /\ i <= Len(a) THEN a[i] ELSE 0

\* s is the sum of the limbs at place i and the carry into it
RECURSIVE AddFrom(_, _, _, _)
AddFrom(a, b, i, s) ==
  IF i > Len(a) /\ i > Len(b)
  THEN (IF s = 0 THEN << >> ELSE << s >>)
  ELSE << s % Base >>
       \o AddFrom(a, b, i + 1, Limb(a, i + 1) + Limb(b, i + 1) + (s \div Base))

BigAdd(a, b) == AddFrom(a, b, 1, Limb(a, 1) + Limb(b, 1))

\* a - b for a >= b; d is the difference of the limbs at place i less the
\* borrow out of place i - 1
RECURSIVE SubFrom(_, _, _, _)
SubFrom(a, b, i, d) ==
  IF i > Len(a) THEN << >>
  ELSE << d % Base >>
       \o SubFrom(a, b, i + 1,
                  Limb(a, i + 1) - Limb(b, i + 1) - (IF d < 0 THEN 1 ELSE 0))

BigSub(a, b) == Trim(SubFrom(a, b, 1, Limb(a, 1) - Limb(b, 1)))

\* -1, 0, 1 as a < b, a = b, a > b
RECURSIVE CmpFrom(_, _, _)
CmpFrom(a, b, i) ==
  IF i = 0 THEN 0
  ELSE IF a[i] < b[i] THEN -1
  ELSE IF a[i] > b[i] THEN 1
  ELSE CmpFrom(a, b, i - 1)

BigCmp(a, b) ==
  IF Len(a) < Len(b) THEN -1
  ELSE IF Len(a) > Len(b) THEN 1
  ELSE CmpFrom(a, b, Len(a))

\* a * k for 0 <= k <= Base; p is the product at place i plus the carry
RECURSIVE MulSmallFrom(_, _, _, _)
MulSmallFrom(a, k, i, p) ==
  IF i > Len(a) THEN (IF p = 0 THEN << >> ELSE << p >>)
  ELSE << p % Base >>
       \o MulSmallFrom(a, k, i + 1, Limb(a, i + 1) * k + (p \div Base))

BigMulSmall(a, k) ==
  IF k = 0 THEN << >> ELSE Trim(MulSmallFrom(a, k, 1, Limb(a, 1) * k))

Zeros(n) == [i \in 1..n |-> 0]

RECURSIVE MulFrom(_, _, _)
MulFrom(a, b, i) ==
  IF i > Len(b) THEN << >>
  ELSE BigAdd(IF b[i] = 0 THEN << >> ELSE Zeros(i - 1) \o BigMulSmall(a, b[i]),
              MulFrom(a, b, i + 1))

BigMul(a, b) == IF a = << >> \/ b = << >> THEN << >> ELSE MulFrom(a, b, 1)

\* floor(a / d) for 1 <= d <= Base, most significant limb first; cur is the
\* remainder so far followed by the limb at place i
RECURSIVE DivSmallFrom(_, _, _, _)
DivSmallFrom(a, d, i, cur) ==
  IF i = 0 THEN << >>
  ELSE DivSmallFrom(a, d, i - 1, (cur % d) * Base + Limb(a, i - 1))
       \o << cur \div d >>

BigDivSmall(a, d) == Trim(DivSmallFrom(a, d, Len(a), Limb(a, Len(a))))

RECURSIVE SmallBitLen(_)
SmallBitLen(n) == IF n = 0 THEN 0 ELSE 1 + SmallBitLen(n \div 2)

BitLen(a) ==
  IF a = << >> THEN 0 ELSE LimbBits * (Len(a) - 1) + SmallBitLen(a[Len(a)])

IsOdd(a) == a # << >> /\ a[1] % 2 = 1

\* a * 2^s
ShiftLeft(a, s) ==
  IF a = << >> THEN << >>
  ELSE Zeros(s \div LimbBits) \o BigMulSmall(a, 2 ^ (s % LimbBits))

\* floor(a / 2^s)
ShiftRight(a, s) ==
  IF s \div LimbBits >= Len(a) THEN << >>
  ELSE BigDivSmall(SubSeq(a, (s \div LimbBits) + 1, Len(a)), 2 ^ (s % LimbBits))

\* floor(q2 / 2) rounded up when q2 is odd and either a lower bit was lost
\* (sticky) or floor(q2 / 2) is odd
RoundUp(q, up) == IF up THEN BigAdd(q, << 1 >>) ELSE q
RoundHalfEven(q2, sticky) ==
  RoundUp(ShiftRight(q2, 1), IsOdd(q2) /\ (sticky \/ q2[1] % 4 >= 2))

\* a / 2^s rounded to the nearest integer, ties to the even one (s >= 1)
RoundShift(a, s) ==
  RoundHalfEven(ShiftRight(a, s - 1), ShiftLeft(ShiftRight(a, s - 1), s - 1) # a)

(***************************************************************************)
(* IEEE-754 binary64 values: s * m * 2^e with m = 0 or 2^52 <= m < 2^53.   *)
(***************************************************************************)
MantBits == 53

FZero == [s |-> 1, m |-> << >>, e |-> 0]

\* A rounded significand q that has grown to MantBits + 1 bits is 2^MantBits.
Renormalise(sign, q, e) ==
  IF BitLen(q) > MantBits
  THEN [s |-> sign, m |-> ShiftRight(q, 1), e |-> e + 1]
  ELSE [s |-> sign, m |-> q, e |-> e]

Normalise(sign, mag, e, len) ==
  IF len = 0 THEN FZero
  ELSE IF len <= MantBits
  THEN [s |-> sign, m |-> ShiftLeft(mag, MantBits - len), e |-> e - (MantBits - len)]
  ELSE Renormalise(sign, RoundShift(mag, len - MantBits), e + (len - MantBits))

\* The double nearest to sign * mag * 2^e (ties to even).
RoundToDouble(sign, mag, e) == Normalise(sign, mag, e, BitLen(mag))

Abs(n) == IF n < 0 THEN -n ELSE n
Sgn(n) == IF n < 0 THEN -1 ELSE 1

\* float(n) for a Python int n
FromInt(n) == RoundToDouble(Sgn(n), BigFromInt(Abs(n)), 0)

\* The double a decimal literal num/den (num, den > 0, den <= Base) denotes:
\* the quotient to LitBits fractional bits, with one more bit that is set
\* when the division is inexact, rounded once.
LitBits == 70
LiteralRound(q, scaled, den) ==
  RoundToDouble(1, BigAdd(ShiftLeft(q, 1),
                          IF BigMulSmall(q, den) = scaled THEN << >> ELSE << 1 >>),
                -(LitBits + 1))
LiteralQuotient(scaled, den) == LiteralRound(BigDivSmall(scaled, den), scaled, den)
Literal(num, den) == LiteralQuotient(ShiftLeft(BigFromInt(num), LitBits), den)

FNeg(x) == [x EXCEPT !.s = -x.s]

FMul(x, y) == RoundToDouble(x.s * y.s, BigMul(x.m, y.m), x.e + y.e)

Min(a, b) == IF a <= b THEN a ELSE b

\* xs * xm * 2^e + ys * ym * 2^e, both significands on the common exponent
AddAligned(xs, xm, ys, ym, e, c) ==
  RoundToDouble(IF xs = ys \/ c >= 0 THEN xs ELSE ys,
                IF xs = ys THEN BigAdd(xm, ym)
                ELSE IF c = 0 THEN << >>
                ELSE IF c > 0 THEN BigSub(xm, ym) ELSE BigSub(ym, xm),
                e)

AddShifted(xs, xm, ys, ym, e) == AddAligned(xs, xm, ys, ym, e, BigCmp(xm, ym))

FAdd(x, y) ==
  IF x.m = << >> THEN y
  ELSE IF y.m = << >> THEN x
  ELSE AddShifted(x.s, ShiftLeft(x.m, x.e - Min(x.e, y.e)),
                  y.s, ShiftLeft(y.m, y.e - Min(x.e, y.e)), Min(x.e, y.e))

FSub(x, y) == FAdd(x, FNeg(y))

\* -1, 0, 1 as x < y, x = y, x > y (significands are normalised, so doubles
\* of one sign order by exponent, then by significand)
SignOf(x) == IF x.m = << >> THEN 0 ELSE x.s
FCmp(x, y) ==
  IF SignOf(x) # SignOf(y) THEN (IF SignOf(x) < SignOf(y) THEN -1 ELSE 1)
  ELSE IF SignOf(x) = 0 THEN 0
  ELSE IF x.e # y.e THEN (IF x.e < y.e THEN -x.s ELSE x.s)
  ELSE x.s * BigCmp(x.m, y.m)

FLess(x, y) == FCmp(x, y) < 0

\* Python's max(x, y): y when it is greater, else x
FMax(x, y) == IF FLess(x, y) THEN y ELSE x

\* Python's round(x, nd) for a float x, as the integer k with result k / 10^nd:
\* the exact binary value times 10^nd, rounded to the nearest integer, ties
\* to even.
ScaleRound(mag, e) == IF e >= 0 THEN ShiftLeft(mag, e) ELSE RoundShift(mag, -e)
RoundDecimal(x, nd) ==
  IF x.m = << >> THEN 0
  ELSE x.s * BigToInt(ScaleRound(BigMulSmall(x.m, 10 ^ nd), x.e))

(***************************************************************************)
(* load_data: the reference catalog.  A decimal literal of the source is   *)
(* kept as the pair <<numerator, denominator>> it is written as; Float     *)
(* gives the double Python reads it as.                                    *)
(***************************************************************************)
Float(lit) == Literal(lit[1], lit[2])

food_data ==
  ( "Daging" :>
      [ shelf_life |-> [tanpa_nano |-> 7, dengan_nano |-> 14],
        temp_sensitif |-> 5, humidity_sensitif |-> 70,
        microbial_growth_rate |-> << 15, 100 >>, color |-> "#FF6B6B" ]
    @@ "Ikan" :>
      [ shelf_life |-> [tanpa_nano |-> 3, dengan_nano |-> 7],
        temp_sensitif |-> 2, humidity_sensitif |-> 80,
        microbial_growth_rate |-> << 25, 100 >>, color |-> "#4ECDC4" ]
    @@ "Buah" :>
      [ shelf_life |-> [tanpa_nano |-> 10, dengan_nano |-> 21],
        temp_sensitif |-> 8, humidity_sensitif |-> 85,
        microbial_growth_rate |-> << 8, 100 >>, color |-> "#FFD166" ]
    @@ "Sayur" :>
      [ shelf_life |-> [tanpa_nano |-> 7, dengan_nano |-> 14],
        temp_sensitif |-> 6, humidity_sensitif |-> 90,
        microbial_growth_rate |-> << 12, 100 >>, color |-> "#06D6A0" ]
    @@ "Produk Olahan" :>
      [ shelf_life |-> [tanpa_nano |-> 30, dengan_nano |-> 60],
        temp_sensitif |-> 15, humidity_sensitif |-> 60,
        microbial_growth_rate |-> << 5, 100 >>, color |-> "#118AB2" ] )

nano_data ==
  ( "Nano-Ag" :>
      [ effectiveness |-> << 85, 100 >>, barrier_property |-> << 9, 10 >>,
        antimicrobial |-> << 95, 100 >>, cost |-> "Tinggi", color |-> "#C5C5C5" ]
    @@ "Nano-ZnO" :>
      [ effectiveness |-> << 75, 100 >>, barrier_property |-> << 8, 10 >>,
        antimicrobial |-> << 85, 100 >>, cost |-> "Sedang", color |-> "#F0E68C" ]
    @@ "Nano-clay" :>
      [ effectiveness |-> << 7, 10 >>, barrier_property |-> << 95, 100 >>,
        antimicrobial |-> << 65, 100 >>, cost |-> "Rendah", color |-> "#D2B48C" ]
    @@ "Nano-kitosan" :>
      [ effectiveness |-> << 8, 10 >>, barrier_property |-> << 85, 100 >>,
        antimicrobial |-> << 9, 10 >>, cost |-> "Sedang", color |-> "#98FB98" ] )

load_data == [food_data |-> food_data, nano_data |-> nano_data]

FoodIds == DOMAIN load_data.food_data
NanoIds == DOMAIN load_data.nano_data

\* Python's None.  Where the program holds a dictionary or None, None is the
\* record below; where it holds a string or None, None is the string NoId
\* (TLC compares records only with records and strings only with strings).
None == [kind |-> "None"]
NoId == "None"

VARIABLES
  pc,             \* the caller of the estimator: "idle" or "returned"
  args,           \* the arguments of the call that returned, or None
  out,            \* what that call returned or raised, or None
  session_state,  \* st.session_state: the keys set so far and their values
  view,           \* what the last run of the page script did
  analysed,       \* history: the last analysis completed in this session
  log             \* history: the estimator calls made so far, oldest first

vars == << pc, args, out, session_state, view, analysed, log >>

(***************************************************************************)
(* The arguments the model draws.  The widgets of show_simulation offer    *)
(* the catalog's identifiers, a temperature slider MinTemp..MaxTemp, a     *)
(* number input MinDays..365 (cut to MaxDays here) and a humidity slider   *)
(* MinHumidity..MaxHumidity (every HumidityStep-th value here).  A direct  *)
(* caller may pass anything: an identifier outside the catalog, zero days, *)
(* a humidity beyond the slider.                                           *)
(***************************************************************************)
MinTemp == -5
MaxTemp == 40
MinDays == 1
MaxDays == 45
MinHumidity == 30
MaxHumidity == 100
HumidityStep == 5

food_types == << "Daging", "Ikan", "Buah", "Sayur", "Produk Olahan" >>
nano_types == << "Nano-Ag", "Nano-ZnO", "Nano-clay", "Nano-kitosan" >>

Range(seq) == { seq[i] : i \in DOMAIN seq }

Temperatures == MinTemp..MaxTemp
StorageDays  == MinDays..MaxDays
Humidities   == { h \in MinHumidity..MaxHumidity : (h - MinHumidity) % HumidityStep = 0 }

UnknownFood == "Telur"
UnknownNano == "Nano-TiO2"
AnyFood == FoodIds \cup { UnknownFood }
AnyNano == NanoIds \cup { UnknownNano }
AnyDays == { 0 } \cup StorageDays
AnyHumidity == { MinHumidity - 1, MaxHumidity + 1 } \cup Humidities

(***************************************************************************)
(* generate_recommendation                                                 *)
(***************************************************************************)
\* A message is the sequence of the pieces its (f-)string is made of; the
\* degree sign of the first one is left out.
RecTooWarm == << "Suhu penyimpanan terlalu tinggi. Simpan di refrigerator (<4C)." >>
RecSensitive(food_type) ==
  << food_type, " sangat sensitif. Gunakan packaging dengan barrier property tinggi." >>
RecNanoAg  == << "Nano-Ag efektif untuk produk dengan nilai ekonomi tinggi." >>
RecKitosan == << "Nano-kitosan ramah lingkungan dan biodegradable." >>
RecClosing ==
  << "Simpan dalam wadah tertutup untuk memaksimalkan efektivitas nano packaging." >>

WarmLimit == 10

\* Mutant: the too-warm rule fires at the limit itself (>= for >).
generate_recommendation_at_limit(food_type, nano_type, temperature) ==
  (IF temperature >= WarmLimit THEN << RecTooWarm >> ELSE << >>)
  \o (IF food_type \in {"Daging", "Ikan"} THEN << RecSensitive(food_type) >> ELSE << >>)
  \o (IF nano_type = "Nano-Ag" THEN << RecNanoAg >>
      ELSE IF nano_type = "Nano-kitosan" THEN << RecKitosan >>
      ELSE << >>)
  \o << RecClosing >>

generate_recommendation(food_type, nano_type, temperature) ==
  (IF temperature > WarmLimit THEN << RecTooWarm >> ELSE << >>)
  \o (IF food_type \in {"Daging", "Ikan"} THEN << RecSensitive(food_type) >> ELSE << >>)
  \o (IF nano_type = "Nano-Ag" THEN << RecNanoAg >>
      ELSE IF nano_type = "Nano-kitosan" THEN << RecKitosan >>
      ELSE << >>)
  \o << RecClosing >>

(***************************************************************************)
(* calculate_shelf_life.  Each intermediate value of the function is       *)
(* tabulated over the arguments it depends on, so that TLC computes every  *)
(* floating-point operation once; the tables are the code's expressions,   *)
(* in the code's order of evaluation.                                      *)
(***************************************************************************)
One   == FromInt(1)
Half  == Literal(5, 10)
Tenth == Literal(1, 10)
FreshBelow == Literal(3, 10)
UnfitFrom  == Literal(7, 10)
OffHumidity == Literal(8, 10)

optimal_temp == 4
HumidityTolerance == 10

base_shelf_life(food_type) == load_data.food_data[food_type].shelf_life.tanpa_nano

\* Mutant: the temperature factor without its floor of 0.5.
temp_factor_unfloored(temperature) ==
  IF temperature > optimal_temp
  THEN FSub(One, FMul(FromInt(temperature - optimal_temp), Tenth))
  ELSE One

\* max(0.5, 1.0 - (temperature - optimal_temp) * 0.1) above the optimum
temp_factor_at(temperature) ==
  IF temperature > optimal_temp
  THEN FMax(Half, FSub(One, FMul(FromInt(temperature - optimal_temp), Tenth)))
  ELSE One

temp_factor == [t \in Temperatures |-> temp_factor_at(t)]

humidity_factor(food_type, humidity) ==
  IF Abs(humidity - load_data.food_data[food_type].humidity_sensitif) > HumidityTolerance
  THEN OffHumidity
  ELSE One

\* Mutant: the effectiveness counted in full (the factor 0.5 dropped).
nano_factor_full ==
  [n \in NanoIds |-> FAdd(One, Float(load_data.nano_data[n].effectiveness))]

\* 1.0 + effectiveness * 0.5
nano_factor ==
  [n \in NanoIds |-> FAdd(One, FMul(Float(load_data.nano_data[n].effectiveness), Half))]

\* base_shelf_life * nano_factor * temp_factor * humidity_factor, left to right
shelf_nano ==
  [f \in FoodIds |-> [n \in NanoIds |->
     FMul(FromInt(base_shelf_life(f)), nano_factor[n])]]

shelf_nano_temp ==
  [f \in FoodIds |-> [n \in NanoIds |-> [t \in Temperatures |->
     FMul(shelf_nano[f][n], temp_factor[t])]]]

shelf_life_with_nano ==
  [f \in FoodIds |-> [n \in NanoIds |-> [t \in Temperatures |->
     [hf \in {One, OffHumidity} |-> FMul(shelf_nano_temp[f][n][t], hf)]]]]

\* microbial_growth * storage_days, then *= (1 - antimicrobial_effect)
growth_days ==
  [f \in FoodIds |-> [d \in AnyDays |->
     FMul(Float(load_data.food_data[f].microbial_growth_rate), FromInt(d))]]

current_microbial ==
  [f \in FoodIds |-> [n \in NanoIds |-> [d \in AnyDays |->
     FMul(growth_days[f][d], FSub(One, Float(load_data.nano_data[n].antimicrobial)))]]]

\* Mutant: the first threshold at 0.5 instead of 0.3.
status_of_late(microbial) ==
  IF FLess(microbial, Half)
  THEN [status |-> "Segar", status_color |-> "green", indicator_color |-> "green"]
  ELSE IF FLess(microbial, UnfitFrom)
  THEN [status |-> "Mulai Rusak", status_color |-> "yellow", indicator_color |-> "yellow"]
  ELSE [status |-> "Tidak Layak", status_color |-> "red", indicator_color |-> "red"]

\* Lines 128-139; status_color (a coloured-circle emoji in the source) is
\* written as the colour's name.
status_of(microbial) ==
  IF FLess(microbial, FreshBelow)
  THEN [status |-> "Segar", status_color |-> "green", indicator_color |-> "green"]
  ELSE IF FLess(microbial, UnfitFrom)
  THEN [status |-> "Mulai Rusak", status_color |-> "yellow", indicator_color |-> "yellow"]
  ELSE [status |-> "Tidak Layak", status_color |-> "red", indicator_color |-> "red"]

\* Mutant: the difference without the clamp at 0.
days_remaining_unclamped(shelf, storage_days) == FSub(shelf, FromInt(storage_days))

\* max(0, shelf_life_with_nano - storage_days): Python's max keeps the int 0
\* unless the difference is greater.
days_remaining_of(shelf, storage_days) ==
  FMax(FZero, FSub(shelf, FromInt(storage_days)))

ShelfValues ==
  { shelf_life_with_nano[f][n][t][hf] :
      f \in FoodIds, n \in NanoIds, t \in Temperatures, hf \in {One, OffHumidity} }

days_remaining ==
  [s \in ShelfValues |-> [d \in AnyDays |-> days_remaining_of(s, d)]]

\* The tail of the function: the status and the three round() calls.
status_table ==
  [f \in FoodIds |-> [n \in NanoIds |-> [d \in AnyDays |->
     status_of(current_microbial[f][n][d])]]]
round_shelf == [s \in ShelfValues |-> RoundDecimal(s, 1)]
round_remaining ==
  [s \in ShelfValues |-> [d \in AnyDays |-> RoundDecimal(days_remaining[s][d], 1)]]
round_microbial ==
  [f \in FoodIds |-> [n \in NanoIds |-> [d \in AnyDays |->
     RoundDecimal(current_microbial[f][n][d], 2)]]]

\* The dictionary of lines 144-153; the three rounded numbers are kept as
\* integers: tenths of a day and hundredths of the microbial level.
result_dict(st, without_nano, with_nano, remaining, microbial, recommendation) ==
  [ kind |-> "ok",
    status |-> st.status,
    status_color |-> st.status_color,
    indicator_color |-> st.indicator_color,
    shelf_life_without_nano |-> without_nano,
    shelf_life_with_nano |-> with_nano,
    days_remaining |-> remaining,
    microbial_level |-> microbial,
    recommendation |-> recommendation ]

rounded_result(food_type, nano_type, temperature, storage_days, shelf) ==
  result_dict(status_table[food_type][nano_type][storage_days],
              base_shelf_life(food_type),
              round_shelf[shelf],
              round_remaining[shelf][storage_days],
              round_microbial[food_type][nano_type][storage_days],
              generate_recommendation(food_type, nano_type, temperature))

\* Lines 98-153, once both dictionary lookups have succeeded.
estimation_result(food_type, nano_type, temperature, storage_days, humidity) ==
  rounded_result(food_type, nano_type, temperature, storage_days,
                 shelf_life_with_nano[food_type][nano_type][temperature]
                                     [humidity_factor(food_type, humidity)])

\* Mutant: a missing identifier falls back to the catalog's first entry
\* (dict.get with a default) instead of raising.
calculate_shelf_life_default(food_type, nano_type, temperature, storage_days, humidity) ==
  estimation_result(IF food_type \in FoodIds THEN food_type ELSE food_types[1],
                    IF nano_type \in NanoIds THEN nano_type ELSE nano_types[1],
                    temperature, storage_days, humidity)

\* Mutant: the estimator reads the food stored in st.session_state, when one
\* is stored, instead of its own argument.
calculate_shelf_life_stale(food_type, nano_type, temperature, storage_days, humidity) ==
  estimation_result(IF session_state.food_type # NoId
                    THEN session_state.food_type ELSE food_type,
                    nano_type, temperature, storage_days, humidity)

\* food_data[food_type] (line 99) and nano_data[nano_type] (line 114) raise
\* KeyError for a key the dictionary does not hold; nothing catches it.
calculate_shelf_life(food_type, nano_type, temperature, storage_days, humidity) ==
  IF food_type \notin DOMAIN load_data.food_data
  THEN [kind |-> "KeyError", key |-> food_type]
  ELSE IF nano_type \notin DOMAIN load_data.nano_data
  THEN [kind |-> "KeyError", key |-> nano_type]
  ELSE estimation_result(food_type, nano_type, temperature, storage_days, humidity)

(***************************************************************************)
(* A caller of the estimator: one call, then the result is consumed.       *)
(***************************************************************************)
Call(food_type, nano_type, temperature, storage_days, humidity) ==
  /\ pc = "idle"
  /\ pc' = "returned"
  /\ args' = [food_type |-> food_type, nano_type |-> nano_type,
              temperature |-> temperature, storage_days |-> storage_days,
              humidity |-> humidity]
  /\ out' = calculate_shelf_life(food_type, nano_type, temperature, storage_days, humidity)
  /\ UNCHANGED << session_state, view, analysed, log >>

Return ==
  /\ pc = "returned"
  /\ pc' = "idle"
  /\ args' = None
  /\ out' = None
  /\ UNCHANGED << session_state, view, analysed, log >>

(***************************************************************************)
(* The page script.  Every run starts with the session-state               *)
(* initialisation of the __main__ block (lines 491-498), which sets only   *)
(* the keys that are missing, and then draws the page the sidebar menu     *)
(* selects (main, lines 204-259).  The source under src/ ends after the    *)
(* initialisation without a call of main(); the pages are modelled as main *)
(* dispatches to them.                                                     *)
(***************************************************************************)
DefaultTemp == 4
DefaultDays == 3
DefaultHumidity == 70

session_init(ss) ==
  [k \in DOMAIN ss \cup {"result", "food_type", "nano_type"} |->
     IF k \in DOMAIN ss THEN ss[k] ELSE IF k = "result" THEN None ELSE NoId]

\* show_results reads the three keys and subscripts result (line 360):
\* None['status_color'] raises TypeError.
show_results(ss) ==
  IF ss.result = None
  THEN [page |-> "Simulasi", results |-> "TypeError"]
  ELSE [page |-> "Simulasi", results |-> "shown", result |-> ss.result,
        food_type |-> ss.food_type, nano_type |-> ss.nano_type]

\* The end of show_simulation (lines 343-345).
show_if_present(ss) ==
  IF "result" \in DOMAIN ss
  THEN show_results(ss)
  ELSE [page |-> "Simulasi", results |-> "none"]

\* The button branch of show_simulation (lines 323-341): the result and the
\* selection are stored, then st.rerun() runs the script again with the
\* button released, and that run draws the page.
store_result(ss, result, selected_food, selected_nano) ==
  [ss EXCEPT !.result = result,
             !.food_type = selected_food,
             !.nano_type = selected_nano]

analyse(result, selected_food, selected_nano) ==
  /\ session_state' = store_result(session_init(session_state), result,
                                   selected_food, selected_nano)
  /\ analysed' = [result |-> result, food_type |-> selected_food,
                  nano_type |-> selected_nano]
  /\ view' = show_if_present(session_init(session_state'))

show_simulation(button, selected_food, selected_nano, temperature, storage_days, humidity) ==
  IF button
  THEN analyse(calculate_shelf_life(selected_food, selected_nano,
                                    temperature, storage_days, humidity),
               selected_food, selected_nano)
  ELSE /\ session_state' = session_init(session_state)
       /\ analysed' = analysed
       /\ view' = show_if_present(session_state')

\* show_dashboard: its button stores page = "simulasi" and reruns; the menu
\* still selects the dashboard.
store_page(ss) ==
  [k \in DOMAIN ss \cup {"page"} |-> IF k = "page" THEN "simulasi" ELSE ss[k]]

show_dashboard(button) ==
  /\ session_state' =
       IF button
       THEN store_page(session_init(session_state))
       ELSE session_init(session_state)
  /\ view' = [page |-> "Dashboard", results |-> "none"]
  /\ analysed' = analysed

\* show_education and show_history draw static content.
show_static(menu) ==
  /\ session_state' = session_init(session_state)
  /\ view' = [page |-> menu, results |-> "none"]
  /\ analysed' = analysed

Init ==
  /\ pc = "idle"
  /\ args = None
  /\ out = None
  /\ session_state = session_init(<< >>)
  /\ view = [page |-> NoId, results |-> "none"]
  /\ analysed = None
  /\ log = << >>

(***************************************************************************)
(* Spec: the estimator under every selection the widgets offer, and under  *)
(* direct calls with arguments the widgets never produce.                  *)
(***************************************************************************)
CallFromWidgets ==
  /\ pc = "idle"
  /\ \E f \in Range(food_types), n \in Range(nano_types), t \in Temperatures,
        d \in StorageDays, h \in Humidities : Call(f, n, t, d, h)

CallDirect ==
  /\ pc = "idle"
  /\ \E f \in AnyFood, n \in AnyNano, t \in {DefaultTemp},
        d \in {0, DefaultDays},
        h \in {MinHumidity - 1, DefaultHumidity, MaxHumidity + 1} : Call(f, n, t, d, h)

Next == CallFromWidgets \/ CallDirect \/ Return

Spec == Init /\ [][Next]_vars

(***************************************************************************)
(* SpecSession: one browser session, any sequence of page redraws and      *)
(* button presses.                                                         *)
(***************************************************************************)
DashboardRun ==
  /\ \E button \in BOOLEAN : show_dashboard(button)
  /\ UNCHANGED << pc, args, out, log >>

SimulationRedraw ==
  /\ show_simulation(FALSE, food_types[1], nano_types[1],
                     DefaultTemp, DefaultDays, DefaultHumidity)
  /\ UNCHANGED << pc, args, out, log >>

SimulationAnalyse ==
  /\ \E f \in Range(food_types), n \in Range(nano_types) :
        show_simulation(TRUE, f, n, DefaultTemp, DefaultDays, DefaultHumidity)
  /\ UNCHANGED << pc, args, out, log >>

StaticRun ==
  /\ \E menu \in {"Edukasi", "Riwayat"} : show_static(menu)
  /\ UNCHANGED << pc, args, out, log >>

NextSession == DashboardRun \/ SimulationRedraw \/ SimulationAnalyse \/ StaticRun

SpecSession == Init /\ [][NextSession]_vars

(***************************************************************************)
(* SpecCalls: up to MaxCalls estimator calls, each logged with what it     *)
(* returned, made directly or by a press of the analysis button (which     *)
(* also writes st.session_state, the program's only mutable state).        *)
(***************************************************************************)
MaxCalls == 3

LogEntry(f, n, t, d, h) ==
  [ args |-> << f, n, t, d, h >>,
    out |-> calculate_shelf_life(f, n, t, d, h),
    catalog |-> load_data ]

LoggedCall ==
  /\ Len(log) < MaxCalls
  /\ \E f \in {food_types[1], food_types[3]}, n \in {nano_types[1], nano_types[3]},
        t \in {DefaultTemp, 2 * WarmLimit} :
        log' = Append(log, LogEntry(f, n, t, DefaultDays, DefaultHumidity))
  /\ UNCHANGED << pc, args, out, session_state, view, analysed >>

LoggedAnalyse ==
  /\ Len(log) < MaxCalls
  /\ \E f \in {food_types[1], food_types[3]}, n \in {nano_types[1], nano_types[3]},
        t \in {DefaultTemp, 2 * WarmLimit} :
        /\ log' = Append(log, LogEntry(f, n, t, DefaultDays, DefaultHumidity))
        /\ show_simulation(TRUE, f, n, t, DefaultDays, DefaultHumidity)
  /\ UNCHANGED << pc, args, out >>

NextCalls == LoggedCall \/ LoggedAnalyse

SpecCalls == Init /\ [][NextCalls]_vars
(***************************************************************************)
(* Properties.  Those about one call are stated of the state in which the  *)
(* call has returned (Spec); reported figures are integers: tenths of a    *)
(* day, hundredths of the microbial level.                                 *)
(***************************************************************************)
Returned == pc = "returned"

KnownIds == args.food_type \in FoodIds /\ args.nano_type \in NanoIds

ValidRequest ==
  /\ KnownIds
  /\ args.temperature \in MinTemp..MaxTemp
  /\ args.storage_days >= MinDays
  /\ args.humidity \in MinHumidity..MaxHumidity

OffOptimalHumidity ==
  Abs(args.humidity - load_data.food_data[args.food_type].humidity_sensitif)
    > HumidityTolerance

\* C1: for every valid request the reported days_remaining is at least 0
\* and at most the reported shelf_life_with_nano.
C1_RemainingWithinShelfLife ==
  (Returned /\ ValidRequest) =>
    /\ 0 <= out.days_remaining
    /\ out.days_remaining <= out.shelf_life_with_nano

\* A valid request stored longer than its shelf life: the difference is
\* negative and the result reports 0 days.
C1_Witness ==
  /\ Returned /\ ValidRequest
  /\ 10 * args.storage_days > out.shelf_life_with_nano
  /\ out.days_remaining = 0
  /\ out.shelf_life_with_nano > 0

\* C2 as stated: for every valid request the reported shelf_life_with_nano
\* is at least 0.5 * base and at most base * (1 + 0.85 * 0.5) = 1.425 * base.
C2_AsStated ==
  (Returned /\ ValidRequest) =>
    /\ out.shelf_life_with_nano >= 5 * out.shelf_life_without_nano
    /\ 100 * out.shelf_life_with_nano <= 1425 * out.shelf_life_without_nano

\* C2, amended: for every valid request the reported shelf_life_with_nano
\* is at least 0.5 * base and at most 1.425 * base + 0.05, the most that
\* rounding to one decimal adds; the lower bound holds with the temperature
\* factor at its floor and the humidity factor 0.8 together.
C2_ShelfLifeBounds ==
  (Returned /\ ValidRequest) =>
    /\ out.shelf_life_with_nano >= 5 * out.shelf_life_without_nano
    /\ 100 * out.shelf_life_with_nano <= 1425 * out.shelf_life_without_nano + 50

\* A valid request with the temperature factor at its floor 0.5 and the
\* humidity factor 0.8 at once.
C2_Witness ==
  /\ Returned /\ ValidRequest
  /\ temp_factor[args.temperature] = Half
  /\ OffOptimalHumidity
  /\ out.shelf_life_with_nano >= 5 * out.shelf_life_without_nano

\* growthRate * storageDays * (1 - antimicrobial) as the fraction
\* MicrobialNum / MicrobialDen of the catalog's decimal literals.
MicrobialNum ==
  load_data.food_data[args.food_type].microbial_growth_rate[1] * args.storage_days
    * (load_data.nano_data[args.nano_type].antimicrobial[2]
         - load_data.nano_data[args.nano_type].antimicrobial[1])
MicrobialDen ==
  load_data.food_data[args.food_type].microbial_growth_rate[2]
    * load_data.nano_data[args.nano_type].antimicrobial[2]

\* C3 as stated: the status is Segar iff microbial < 0.3, Mulai Rusak iff
\* 0.3 <= microbial < 0.7 and Tidak Layak iff microbial >= 0.7, for
\* microbial = growthRate * storageDays * (1 - antimicrobial); a value of
\* exactly 0.3 is Mulai Rusak and a value of exactly 0.7 is Tidak Layak.
C3_StatusByThreshold ==
  (Returned /\ ValidRequest) =>
    /\ out.status = "Segar" <=> 10 * MicrobialNum < 3 * MicrobialDen
    /\ out.status = "Mulai Rusak" <=>
         (10 * MicrobialNum >= 3 * MicrobialDen /\ 10 * MicrobialNum < 7 * MicrobialDen)
    /\ out.status = "Tidak Layak" <=> 10 * MicrobialNum >= 7 * MicrobialDen

\* C4: a call with a food or material identifier outside the catalog ends
\* in the lookup's error, which names the missing identifier; it returns no
\* result, and none built from another catalog entry.
C4_UnknownIdRaises ==
  (Returned /\ ~KnownIds) =>
    /\ out.kind = "KeyError"
    /\ out.key = (IF args.food_type \notin FoodIds
                  THEN args.food_type ELSE args.nano_type)
    /\ DOMAIN out = {"kind", "key"}

\* A known food with a material outside the catalog: the second lookup fails.
C4_Witness ==
  /\ Returned
  /\ args.food_type \in FoodIds
  /\ args.nano_type = UnknownNano
  /\ out = [kind |-> "KeyError", key |-> UnknownNano]

\* C5 as stated: a call with storageDays < 1 or humidity outside [30,100]
\* ends in an InvalidArgumentError and produces no result.
C5_InvalidArgumentRejected ==
  (Returned /\ KnownIds
     /\ (args.storage_days < MinDays \/ args.humidity \notin MinHumidity..MaxHumidity)) =>
    out.kind = "InvalidArgumentError"

\* The place of a message in the fixed rule order.
RuleOf(message) ==
  IF message = RecTooWarm THEN 1
  ELSE IF message \in { RecSensitive(f) : f \in AnyFood } THEN 2
  ELSE IF message \in { RecNanoAg, RecKitosan } THEN 3
  ELSE IF message = RecClosing THEN 4
  ELSE 0

Holds(list, message) == \E i \in DOMAIN list : list[i] = message

\* C6: the recommendation list has 1 to 4 entries, ends with the closing
\* advisory, and follows the rule order: the too-warm advisory iff
\* temperature > 10, then the sensitive-category advisory iff the food is
\* Daging or Ikan, then at most one material advisory, then the closing one.
C6_RecommendationOrder ==
  (Returned /\ KnownIds) =>
    /\ Len(out.recommendation) \in 1..4
    /\ out.recommendation[Len(out.recommendation)] = RecClosing
    /\ \A i \in DOMAIN out.recommendation : RuleOf(out.recommendation[i]) > 0
    /\ \A i, j \in DOMAIN out.recommendation :
         i < j => RuleOf(out.recommendation[i]) < RuleOf(out.recommendation[j])
    /\ Holds(out.recommendation, RecTooWarm) <=> args.temperature > 10
    /\ Holds(out.recommendation, RecSensitive(args.food_type))
         <=> args.food_type \in {"Daging", "Ikan"}
    /\ Holds(out.recommendation, RecNanoAg) <=> args.nano_type = "Nano-Ag"
    /\ Holds(out.recommendation, RecKitosan) <=> args.nano_type = "Nano-kitosan"

\* All four rules fire: a warm temperature, a sensitive food, a material
\* with an advisory.
C6_Witness ==
  /\ Returned /\ KnownIds
  /\ args.temperature > 10
  /\ out.recommendation =
       << RecTooWarm, RecSensitive("Ikan"), RecKitosan, RecClosing >>

Scenario(temperature) ==
  [food_type |-> "Daging", nano_type |-> "Nano-Ag", temperature |-> temperature,
   storage_days |-> 3, humidity |-> 70]

\* C7: Daging with Nano-Ag, 3 days, humidity 70: at 4 degrees the result is
\* shelf_life_with_nano 10.0, days_remaining 7.0, status Segar; at 20
\* degrees the temperature factor is 0.5 and the result is 5.0, 2.0, Segar,
\* with the microbial level of the first scenario.
C7_WorkedScenarios ==
  /\ (Returned /\ args = Scenario(4)) =>
       /\ out.shelf_life_with_nano = 100
       /\ out.days_remaining = 70
       /\ out.status = "Segar"
       /\ out.microbial_level = 2
  /\ (Returned /\ args = Scenario(20)) =>
       /\ temp_factor[20] = Half
       /\ out.shelf_life_with_nano = 50
       /\ out.days_remaining = 20
       /\ out.status = "Segar"
       /\ out.microbial_level = calculate_shelf_life("Daging", "Nano-Ag", 4, 3, 70).microbial_level

\* The second scenario has been computed.
C7_Witness ==
  /\ Returned /\ args = Scenario(20)
  /\ out.shelf_life_with_nano = 50
  /\ out.days_remaining = 20

C9_AsStated ==
  (Returned /\ ValidRequest) =>
    /\ out.status = "Segar" <=> out.microbial_level < 30
    /\ out.status = "Mulai Rusak" <=>
         (30 <= out.microbial_level /\ out.microbial_level < 70)
    /\ out.status = "Tidak Layak" <=> out.microbial_level >= 70

\* C9, amended: the status agrees with the reported microbial_level up to
\* the rounding: Segar implies a level of at most 0.3, Mulai Rusak a level
\* from 0.3 to 0.7, Tidak Layak a level of at least 0.7, and the status is
\* one of the three.
C9_StatusWithinRounding ==
  (Returned /\ ValidRequest) =>
    /\ out.status \in {"Segar", "Mulai Rusak", "Tidak Layak"}
    /\ out.status = "Segar" => out.microbial_level <= 30
    /\ out.status = "Mulai Rusak" =>
         (30 <= out.microbial_level /\ out.microbial_level <= 70)
    /\ out.status = "Tidak Layak" => out.microbial_level >= 70

\* Buah with Nano-kitosan after 37 days: 0.296 is Segar and is reported as 0.3.
C9_Witness ==
  /\ Returned /\ ValidRequest
  /\ args.food_type = "Buah" /\ args.nano_type = "Nano-kitosan"
  /\ args.storage_days = 37
  /\ out.status = "Segar"
  /\ out.microbial_level = 30

\* C10 as stated: the simulation page shows results only after an analysis
\* of this session, then reads a non-None result with the food and material
\* of the most recent analysis, and never fails.
C10_ResultsOnlyAfterAnalysis ==
  view.results # "none" =>
    /\ analysed # None
    /\ view.results = "shown"
    /\ view.result = analysed.result
    /\ view.food_type = analysed.food_type
    /\ view.nano_type = analysed.nano_type
=============================================================================
